---- MODULE Spec2Model ----
(***************************************************************************)
(* Model of the rule no-defined-arbitrary-value of eslint-plugin-tailwindcss *)
(* (lib/rules/no-defined-arbitrary-value.js) and of its helper              *)
(* lib/util/splitWithIndex.js.                                              *)
(*                                                                         *)
(* JavaScript strings are sequences of one-character strings, so that      *)
(* lengths, offsets, substrings and letter case are what they are in the   *)
(* code.  Offsets reported by the code are 0-based; Sequences are 1-based. *)
(***************************************************************************)
EXTENDS Integers, Sequences, FiniteSets, TLC

VARIABLES
  splitStr,      \* splitWithIndex: argument str
  splitSep,      \* splitWithIndex: argument separator
  splitResult,   \* splitWithIndex: returned array
  splitCalled    \* whether splitWithIndex has returned for the current arguments

splitVars == <<splitStr, splitSep, splitResult, splitCalled>>

\* Longest argument string of splitWithIndex that is enumerated.
MaxLen == 4

(***************************************************************************)
(* String helpers (String.prototype.substring, 0-based, end exclusive).     *)
(***************************************************************************)
Substring(s, from, to) ==
  IF to <= from THEN <<>> ELSE SubSeq(s, from + 1, to)

SubstringFrom(s, from) == Substring(s, from, Len(s))

RECURSIVE Flatten(_)
Flatten(ss) == IF ss = <<>> THEN <<>> ELSE Head(ss) \o Flatten(Tail(ss))

\* The characters of the class \s that occur in the model.
Whitespace == {" ", "\t"}

(***************************************************************************)
(* Separators.  A separator is a regular expression of the family          *)
(*    c   c+   (c)   (c+)                                                  *)
(* for a character class c: cls is the class, plus says whether the class  *)
(* is repeated greedily, group whether one capture group spans the match.  *)
(* /(\s+)/ is [cls |-> Whitespace, plus |-> TRUE, group |-> TRUE].         *)
(***************************************************************************)
Regex(cls, plus, group) == [cls |-> cls, plus |-> plus, group |-> group]

WhitespaceSplitter == Regex(Whitespace, TRUE, TRUE)

\* Length of the match of sep that starts at 0-based position i of s, 0 if none.
RECURSIVE RunLen(_, _, _)
RunLen(s, cls, i) ==
  IF i < Len(s) /\ s[i + 1] \in cls THEN 1 + RunLen(s, cls, i + 1) ELSE 0

MatchLenAt(s, sep, i) ==
  IF i < Len(s) /\ s[i + 1] \in sep.cls
  THEN IF sep.plus THEN RunLen(s, sep.cls, i) ELSE 1
  ELSE 0

\* [...str.matchAll(regex)]: the successive non-overlapping matches from
\* position i on; each match is <<m0, m1, ...>> with its index.
RECURSIVE MatchAllFrom(_, _, _)
MatchAllFrom(s, sep, i) ==
  IF i >= Len(s) THEN <<>>
  ELSE LET n == MatchLenAt(s, sep, i) IN
       IF n = 0 THEN MatchAllFrom(s, sep, i + 1)
       ELSE LET m0 == Substring(s, i, i + n) IN
            <<[index |-> i,
               m |-> IF sep.group THEN <<m0, m0>> ELSE <<m0>>]>>
            \o MatchAllFrom(s, sep, i + n)

MatchAll(s, sep) == MatchAllFrom(s, sep, 0)

(***************************************************************************)
(* splitWithIndex(str, separator)                                          *)
(***************************************************************************)
Entry(value, index) == [value |-> value, index |-> index]

\* The empty entry pushed when the string starts with a separator.
LeadingEntry(matches) ==
  IF Len(matches) > 0 /\ matches[1].index = 0 THEN <<Entry(<<>>, 0)>> ELSE <<>>

\* One pass of the for loop, first statement: the text before the match.
PieceBefore(s, match, lastIndex) ==
  IF match.index # lastIndex
  THEN <<Entry(Substring(s, lastIndex, match.index), lastIndex)>>
  ELSE <<>>

\* One pass of the for loop, second statement: the capture groups.
Captures(match) ==
  IF Len(match.m) > 1
  THEN [i \in 1..(Len(match.m) - 1) |-> Entry(match.m[i + 1], match.index)]
  ELSE <<>>

RECURSIVE SplitLoop(_, _, _)
SplitLoop(s, matches, lastIndex) ==
  IF matches = <<>>
  THEN <<Entry(SubstringFrom(s, lastIndex), lastIndex)>>
  ELSE LET match == Head(matches) IN
       PieceBefore(s, match, lastIndex) \o Captures(match)
       \o SplitLoop(s, Tail(matches), match.index + Len(match.m[1]))

splitWithIndex(s, sep) ==
  LET matches == MatchAll(s, sep) IN
  IF Len(matches) = 0 THEN <<Entry(s, 0)>>
  ELSE LeadingEntry(matches) \o SplitLoop(s, matches, 0)

(***************************************************************************)
(* String.prototype.split(separator) of the language, for a separator of   *)
(* the family above (ECMAScript RegExp.prototype[@@split]): q scans the    *)
(* string, p is the start of the piece being collected.                    *)
(***************************************************************************)
RECURSIVE JsSplitFrom(_, _, _, _)
JsSplitFrom(s, sep, p, q) ==
  IF q >= Len(s) THEN <<SubstringFrom(s, p)>>
  ELSE LET n == MatchLenAt(s, sep, q) IN
       IF n = 0 THEN JsSplitFrom(s, sep, p, q + 1)
       ELSE <<Substring(s, p, q)>>
            \o (IF sep.group THEN <<Substring(s, q, q + n)>> ELSE <<>>)
            \o JsSplitFrom(s, sep, q + n, q + n)

JsSplit(s, sep) ==
  IF s = <<>> THEN <<s>> ELSE JsSplitFrom(s, sep, 0, 0)

Values(entries) == [i \in 1..Len(entries) |-> entries[i].value]

(***************************************************************************)
(* The calls of splitWithIndex.                                            *)
(***************************************************************************)
SplitAlphabet == {"a", "b", " "}

RECURSIVE StringsUpTo(_, _)
StringsUpTo(alphabet, n) ==
  IF n = 0 THEN {<<>>}
  ELSE LET shorter == StringsUpTo(alphabet, n - 1) IN
       shorter \cup {Append(s, c) : s \in {t \in shorter : Len(t) = n - 1},
                                    c \in alphabet}

SplitStrings == StringsUpTo(SplitAlphabet, MaxLen)

Separators == {Regex(Whitespace, p, g) : p \in BOOLEAN, g \in BOOLEAN}

SplitInit ==
  /\ splitStr \in SplitStrings
  /\ splitSep \in Separators
  /\ splitResult = <<>>
  /\ splitCalled = FALSE

CallSplitWithIndex ==
  /\ ~splitCalled
  /\ splitResult' = splitWithIndex(splitStr, splitSep)
  /\ splitCalled' = TRUE
  /\ UNCHANGED <<splitStr, splitSep>>

(***************************************************************************)
(* JavaScript values.  Every value carries its type, so that a test such   *)
(* as typeof v === 'string' or Array.isArray(v) is a test of the tag; an   *)
(* array or an object is identified by id (reference identity).            *)
(***************************************************************************)
JsStr(s) == [t |-> "string", s |-> s, id |-> 0]
JsArr(id) == [t |-> "array", s |-> <<>>, id |-> id]
JsBool == [t |-> "boolean", s |-> <<>>, id |-> 0]
JsNull == [t |-> "null", s |-> <<>>, id |-> 0]
JsUndefined == [t |-> "undefined", s |-> <<>>, id |-> 0]

IsString(v) == v.t = "string"

\* The grave accent character of a JavaScript string.
Backtick == "BACKTICK"

Str_DEFAULT == <<"D", "E", "F", "A", "U", "L", "T">>
Str_gray == <<"g", "r", "a", "y">>
Str_layout == <<"l", "a", "y", "o", "u", "t">>
Str_flow == <<"f", "l", "o", "w">>
Str_list == <<"l", "i", "s", "t">>
Str_f0f2f5 == <<"#", "f", "0", "f", "2", "f", "5">>
Str_F0F2F5 == <<"#", "F", "0", "F", "2", "F", "5">>
Str_123456 == <<"#", "1", "2", "3", "4", "5", "6">>
Str_332233 == <<"#", "3", "3", "2", "2", "3", "3">>

(***************************************************************************)
(* Themes: mergedConfig.theme.colors, a nested mapping.  A mapping is its  *)
(* entries in key-enumeration order.                                       *)
(***************************************************************************)
Obj(entries) == [t |-> "object", entries |-> entries]
KV(key, val) == [key |-> key, val |-> val]

\* The theme of the rule's test (configOptions).
TestColors ==
  Obj(<<KV(Str_gray, Obj(<<KV(Str_DEFAULT, JsStr(Str_332233)),
                           KV(Str_layout, JsStr(Str_f0f2f5)),
                           KV(Str_flow, JsStr(Str_f0f2f5))>>)),
        KV(Str_flow, JsStr(Str_123456))>>)

\* The same values found in another order, a top-level DEFAULT, array and
\* null leaves.
OtherColors ==
  Obj(<<KV(Str_flow, JsStr(Str_f0f2f5)),
        KV(Str_list, JsArr(1)),
        KV(Str_gray, Obj(<<KV(Str_layout, JsStr(Str_f0f2f5)),
                           KV(Str_list, JsNull),
                           KV(Str_DEFAULT, JsStr(Str_123456))>>)),
        KV(Str_DEFAULT, JsStr(Str_332233))>>)

\* Keys that hold a dollar sign: a path is the replacement string of
\* String.prototype.replace, where a dollar sign may start a pattern.
DollarColors ==
  Obj(<<KV(<<"$", "&">>, JsStr(Str_f0f2f5)),
        KV(<<"a", "$", "$">>, JsStr(Str_123456)),
        KV(<<"y", "$", Backtick>>, JsStr(Str_332233))>>)

QuoteColors ==
  Obj(<<KV(<<"x", "$", "'">>, JsStr(Str_f0f2f5)),
        KV(<<"$", "1", "$">>, JsStr(Str_123456)),
        KV(<<"$">>, Obj(<<KV(Str_DEFAULT, JsStr(Str_332233))>>))>>)

\* colors: {}, a theme with no colour.
EmptyColors == Obj(<<>>)

\* A resolved theme without a colors key: mergedConfig.theme.colors is
\* undefined.
MissingColors == JsUndefined

\* The theme option of skipClassAttributeOptions of the rule's test, before
\* it is resolved: theme: { }, no colors key.
SkipClassAttributeTheme == [hasColors |-> FALSE, colors |-> JsUndefined]

\* The colours of the base theme, none of them a value of our themes.
BaseColors ==
  Obj(<<KV(<<"b", "l", "a", "c", "k">>, JsStr(<<"#", "0", "0", "0">>)),
        KV(<<"w", "h", "i", "t", "e">>, JsStr(<<"#", "f", "f", "f">>))>>)

\* customConfig.resolve(twConfig).theme.colors: the option is merged into
\* the base theme, whose colours stand where the option names none.
ResolveColors(theme) == IF theme.hasColors THEN theme.colors ELSE BaseColors

\* mergedConfig.theme.colors under skipClassAttributeOptions.
SkipClassAttributeColors == ResolveColors(SkipClassAttributeTheme)

Themes ==
  {TestColors, OtherColors, DollarColors, QuoteColors, EmptyColors,
   SkipClassAttributeColors, MissingColors}

(***************************************************************************)
(* traverseObject(obj, callback, path): the calls of callback, in order.   *)
(***************************************************************************)
IsPlainObject(value) == value.t = "object"

RECURSIVE traverseObject(_, _)
RECURSIVE TraverseKeys(_, _)

TraverseValue(value, path, key) ==
  LET newPath == Append(path, key) IN
  IF IsPlainObject(value)
  THEN traverseObject(value, newPath)
  ELSE <<[value |-> value, path |-> newPath]>>

TraverseKeys(entries, path) ==
  IF entries = <<>> THEN <<>>
  ELSE TraverseValue(Head(entries).val, path, Head(entries).key)
       \o TraverseKeys(Tail(entries), path)

traverseObject(obj, path) == TraverseKeys(obj.entries, path)

\* Object.keys(obj) of traverseObject throws a TypeError when obj is
\* undefined or null.
TraverseThrows(obj) == obj.t \in {"undefined", "null"}

(***************************************************************************)
(* The index built by create: a Map from a leaf value to the list of its   *)
(* paths, as the entries of the Map in insertion order.                    *)
(***************************************************************************)
\* Array.prototype.join
RECURSIVE Join(_, _)
Join(path, sepChars) ==
  IF path = <<>> THEN <<>>
  ELSE IF Len(path) = 1 THEN Head(path)
  ELSE Head(path) \o sepChars \o Join(Tail(path), sepChars)

MapHas(m, key) == \E i \in 1..Len(m) : m[i].key = key

MapIndex(m, key) == CHOOSE i \in 1..Len(m) : m[i].key = key

\* Map.prototype.get; undefined is the empty list here, and the code reads
\* it only after map.has.
MapGet(m, key) == IF MapHas(m, key) THEN m[MapIndex(m, key)].paths ELSE <<>>

\* Collect with a fault: the entry of a value is replaced, not extended.
CollectOverwrite(m, value, path) ==
  IF MapHas(m, value)
  THEN [m EXCEPT ![MapIndex(m, value)].paths = <<Join(path, <<"-">>)>>]
  ELSE Append(m, [key |-> value, paths |-> <<Join(path, <<"-">>)>>])

\* The callback given to traverseObject.
Collect(m, value, path) ==
  IF MapHas(m, value)
  THEN [m EXCEPT ![MapIndex(m, value)].paths = Append(@, Join(path, <<"-">>))]
  ELSE Append(m, [key |-> value, paths |-> <<Join(path, <<"-">>)>>])

RECURSIVE CollectAll(_, _)
CollectAll(m, calls) ==
  IF calls = <<>> THEN m
  ELSE CollectAll(Collect(m, Head(calls).value, Head(calls).path), Tail(calls))

BuildMap(colors) == CollectAll(<<>>, traverseObject(colors, <<>>))

(***************************************************************************)
(* Syntax trees.  The host parser gives every node its type, its children  *)
(* and its range [start, end) in the source text.  An expression is first  *)
(* written without positions (the constructors below); Locate lays it out  *)
(* at an offset, filling in range and text (the node's own source text),   *)
(* so that ranges and source text always agree.  A string literal is       *)
(* written between quotes; the range of a TemplateElement covers its raw   *)
(* text only.                                                              *)
(***************************************************************************)
NullNode == [type |-> "null", range |-> <<0, 0>>, text |-> <<>>]
UndefinedNode == [type |-> "undefined", range |-> <<0, 0>>, text |-> <<>>]

\* obj.f, undefined when obj has no property f.
Field(obj, f) == IF f \in DOMAIN obj THEN obj[f] ELSE UndefinedNode

\* A literal has its value and its raw text, the source text between the
\* quotes; the two are the same string unless the text holds an escape.
Literal(s) ==
  [type |-> "Literal", value |-> JsStr(s), raw |-> s, quote |-> "\""]
\* A string literal between single quotes, as written inside an attribute.
QuotedLiteral(s) ==
  [type |-> "Literal", value |-> JsStr(s), raw |-> s, quote |-> "'"]
\* The string literal "a\tb" of the source: its value holds a tab.
TabLiteral(a, b) ==
  [type |-> "Literal", value |-> JsStr(a \o <<"\t">> \o b),
   raw |-> a \o <<"\\", "t">> \o b, quote |-> "\""]
TrueLiteral ==
  [type |-> "Literal", value |-> JsBool, raw |-> <<"t", "r", "u", "e">>,
   quote |-> ""]
Identifier(name) == [type |-> "Identifier", name |-> name]
ConditionalExpression(test, consequent, alternate) ==
  [type |-> "ConditionalExpression", test |-> test,
   consequent |-> consequent, alternate |-> alternate]
LogicalExpression(left, right) ==
  [type |-> "LogicalExpression", left |-> left, right |-> right]
BinaryExpression(left, right) ==
  [type |-> "BinaryExpression", left |-> left, right |-> right]
CallExpression(callee, arguments) ==
  [type |-> "CallExpression", callee |-> Identifier(callee),
   arguments |-> arguments]
ArrayExpression(elements) == [type |-> "ArrayExpression", elements |-> elements]
Hole == [type |-> "null"]
ObjectExpression(properties) ==
  [type |-> "ObjectExpression", properties |-> properties]
Property(key, value) == [type |-> "Property", key |-> key, value |-> value]
SpreadElement(argument) == [type |-> "SpreadElement", argument |-> argument]
\* A template with the static segments raw0 and raw1 around one expression.
TemplateLiteral(raw0, expression, raw1) ==
  [type |-> "TemplateLiteral", raw0 |-> raw0, expression |-> expression,
   raw1 |-> raw1]

\* The backtick character (the module's parser does not read it in a string).

End(node) == node.range[2]

RECURSIVE Locate(_, _)
RECURSIVE LocateList(_, _)

\* The elements of a comma-separated list, the first one at offset o.
LocateList(es, o) ==
  IF es = <<>> THEN <<>>
  ELSE LET first == Locate(Head(es), o) IN
       <<first>> \o LocateList(Tail(es), End(first) + 1)

ListText(nodes) ==
  Join([i \in 1..Len(nodes) |-> nodes[i].text], <<",">>)

Locate(e, o) ==
  CASE e.type = "null" ->
         [type |-> "null", range |-> <<o, o>>, text |-> <<>>]
    [] e.type = "Literal" ->
         LET text == IF IsString(e.value)
                     THEN <<e.quote>> \o e.raw \o <<e.quote>>
                     ELSE e.raw IN
         [type |-> "Literal", value |-> e.value,
          range |-> <<o, o + Len(text)>>, text |-> text]
    [] e.type = "Identifier" ->
         [type |-> "Identifier", name |-> e.name,
          range |-> <<o, o + Len(e.name)>>, text |-> e.name]
    [] e.type = "ConditionalExpression" ->
         LET test == Locate(e.test, o)
             consequent == Locate(e.consequent, End(test) + 1)
             alternate == Locate(e.alternate, End(consequent) + 1) IN
         [type |-> "ConditionalExpression", test |-> test,
          consequent |-> consequent, alternate |-> alternate,
          range |-> <<o, End(alternate)>>,
          text |-> test.text \o <<"?">> \o consequent.text \o <<":">>
                   \o alternate.text]
    [] e.type \in {"LogicalExpression", "BinaryExpression"} ->
         LET op == IF e.type = "LogicalExpression" THEN <<"&", "&">> ELSE <<"+">>
             left == Locate(e.left, o)
             right == Locate(e.right, End(left) + Len(op)) IN
         [type |-> e.type, left |-> left, right |-> right,
          range |-> <<o, End(right)>>,
          text |-> left.text \o op \o right.text]
    [] e.type = "CallExpression" ->
         LET callee == Locate(e.callee, o)
             arguments == LocateList(e.arguments, End(callee) + 1)
             text == callee.text \o <<"(">> \o ListText(arguments) \o <<")">> IN
         [type |-> "CallExpression", callee |-> callee,
          arguments |-> arguments,
          range |-> <<o, o + Len(text)>>, text |-> text]
    [] e.type = "ArrayExpression" ->
         LET elements == LocateList(e.elements, o + 1)
             text == <<"[">> \o ListText(elements) \o <<"]">> IN
         [type |-> "ArrayExpression", elements |-> elements,
          range |-> <<o, o + Len(text)>>, text |-> text]
    [] e.type = "ObjectExpression" ->
         LET properties == LocateList(e.properties, o + 1)
             text == <<"{">> \o ListText(properties) \o <<"}">> IN
         [type |-> "ObjectExpression", properties |-> properties,
          range |-> <<o, o + Len(text)>>, text |-> text]
    [] e.type = "Property" ->
         LET key == Locate(e.key, o)
             value == Locate(e.value, End(key) + 1) IN
         [type |-> "Property", key |-> key, value |-> value,
          range |-> <<o, End(value)>>,
          text |-> key.text \o <<":">> \o value.text]
    [] e.type = "SpreadElement" ->
         LET argument == Locate(e.argument, o + 3) IN
         [type |-> "SpreadElement", argument |-> argument,
          range |-> <<o, End(argument)>>,
          text |-> <<".", ".", ".">> \o argument.text]
    [] e.type = "TemplateLiteral" ->
         LET q0 == [type |-> "TemplateElement", raw |-> e.raw0,
                    range |-> <<o + 1, o + 1 + Len(e.raw0)>>,
                    text |-> e.raw0]
             expression == Locate(e.expression, End(q0) + 2)
             q1 == [type |-> "TemplateElement", raw |-> e.raw1,
                    range |-> <<End(expression) + 1,
                                End(expression) + 1 + Len(e.raw1)>>,
                    text |-> e.raw1] IN
         [type |-> "TemplateLiteral", quasis |-> <<q0, q1>>,
          expressions |-> <<expression>>,
          range |-> <<o, End(q1) + 1>>,
          text |-> <<Backtick>> \o q0.text \o <<"$", "{">> \o expression.text \o <<"}">>
                   \o q1.text \o <<Backtick>>]

(***************************************************************************)
(* util/ast: what the rule asks of a visited node.                         *)
(***************************************************************************)
\* classRegex, by default ^class(Name)?$
ClassAttributeNames == {<<"c", "l", "a", "s", "s">>, <<"c", "l", "a", "s", "s", "N", "a", "m", "e">>}

isClassAttribute(node) ==
  CASE node.type \in {"JSXAttribute", "TextAttribute"} ->
         node.name \in ClassAttributeNames
    [] node.type = "VAttribute" -> node.key.name \in ClassAttributeNames
    [] OTHER -> FALSE

isLiteralAttributeValue(node) ==
  CASE node.type = "TextAttribute" -> IsString(node.value)
    [] node.type = "JSXAttribute" -> node.value.type = "Literal"
    [] OTHER -> FALSE

isVLiteralValue(node) == node.value.type = "VLiteral"

isArrayExpression(node) ==
  /\ node.value.type = "VExpressionContainer"
  /\ node.value.expression.type = "ArrayExpression"

isObjectExpression(node) ==
  /\ node.value.type = "VExpressionContainer"
  /\ node.value.expression.type = "ObjectExpression"

isValidVueAttribute(node) ==
  /\ isClassAttribute(node)
  /\ isVLiteralValue(node) \/ isArrayExpression(node) \/ isObjectExpression(node)

\* The literal value of the node itself; not a string when the node holds
\* no literal.
extractValueFromNode(node) ==
  CASE node.type = "TextAttribute" -> node.value
    [] node.type \in {"JSXAttribute", "VAttribute"}
       /\ node.value.type \in {"Literal", "VLiteral"} -> node.value.value
    [] OTHER -> JsUndefined

\* The raw range of the node's value.
extractRangeFromNode(node) ==
  CASE node.type = "TextAttribute" -> node.valueSpan
    [] node.type \in {"JSXAttribute", "VAttribute"} -> node.value.range
    [] OTHER -> node.range

calleeToString(callee) == callee.name

\* The class names of a string with the offset of each in the string; no
\* class name for a value that is not a string.
extractClassnamesFromValue(value) ==
  IF ~IsString(value) THEN [classNames |-> <<>>, classNamesIndex |-> <<>>]
  ELSE LET parts == splitWithIndex(value.s, WhitespaceSplitter)
           isClass(p) == p.value # <<>> /\ p.value[1] \notin Whitespace
           classes == SelectSeq(parts, isClass) IN
       [classNames |-> [i \in 1..Len(classes) |-> classes[i].value],
        classNamesIndex |-> [i \in 1..Len(classes) |-> classes[i].index]]

(***************************************************************************)
(* util/groupMethods: parseClassname.  The rule reads the name of the      *)
(* parsed class only: the class without its variants (hover:, md:hover:),  *)
(* which end at the last separator before the arbitrary value.             *)
(***************************************************************************)
VariantSeparator == ":"

IndexOfChar(s, c) ==
  IF \E i \in 1..Len(s) : s[i] = c
  THEN (CHOOSE i \in 1..Len(s) : s[i] = c /\ \A j \in 1..(i - 1) : s[j] # c) - 1
  ELSE -1

LastIndexOfChar(s, c) ==
  IF \E i \in 1..Len(s) : s[i] = c
  THEN (CHOOSE i \in 1..Len(s) :
          s[i] = c /\ \A j \in (i + 1)..Len(s) : s[j] # c) - 1
  ELSE -1

parseClassname(cls) ==
  LET open == IndexOfChar(cls, "[")
      head == IF open = -1 THEN cls ELSE Substring(cls, 0, open)
      sep == LastIndexOfChar(head, VariantSeparator) IN
  [name |-> SubstringFrom(cls, sep + 1),
   variants |-> Substring(cls, 0, sep + 1)]

(***************************************************************************)
(* String operations of the matcher.                                       *)
(***************************************************************************)
\* name.match(/\[(.*)\]/i): nothing, or the match from the first [ to the
\* last ] after it, with the text between them.
NoMatch == [found |-> FALSE, matched |-> <<>>, key |-> <<>>]

BracketMatch(name) ==
  LET open == IndexOfChar(name, "[")
      close == LastIndexOfChar(name, "]") IN
  IF open = -1 \/ close < open THEN NoMatch
  ELSE [found |-> TRUE,
        matched |-> Substring(name, open, close + 1),
        key |-> Substring(name, open + 1, close)]

\* String.prototype.indexOf
IndexOf(s, pattern) ==
  LET at(i) == Substring(s, i, i + Len(pattern)) = pattern
      places == {i \in 0..(Len(s) - Len(pattern)) : at(i)} IN
  IF places = {} THEN -1
  ELSE CHOOSE i \in places : \A j \in places : i <= j

\* The replacement string of String.prototype.replace, expanded for one
\* match from its position i on: $$ is a dollar sign, $& the matched text,
\* $ and a grave accent the text before the match, $' the text after it.
\* A string pattern has no capture group, so $1 and $<name> stay as they
\* are, and so does a dollar sign before any other character or at the end.
RECURSIVE GetSubstitution(_, _, _, _, _)
GetSubstitution(replacement, i, matched, before, after) ==
  IF i > Len(replacement) THEN <<>>
  ELSE IF replacement[i] = "$" /\ i < Len(replacement)
  THEN LET c == replacement[i + 1]
           rest == GetSubstitution(replacement, i + 2, matched, before, after) IN
       IF c = "$" THEN <<"$">> \o rest
       ELSE IF c = "&" THEN matched \o rest
       ELSE IF c = Backtick THEN before \o rest
       ELSE IF c = "'" THEN after \o rest
       ELSE <<"$">> \o GetSubstitution(replacement, i + 1, matched, before, after)
  ELSE <<replacement[i]>>
       \o GetSubstitution(replacement, i + 1, matched, before, after)

\* String.prototype.replace with a string pattern: the first occurrence,
\* replaced by the expansion of the replacement string.
Replace(s, pattern, replacement) ==
  LET i == IndexOf(s, pattern)
      before == Substring(s, 0, i)
      after == SubstringFrom(s, i + Len(pattern)) IN
  IF i = -1 THEN s
  ELSE before \o GetSubstitution(replacement, 1, pattern, before, after) \o after

EndsWith(s, suffix) ==
  /\ Len(s) >= Len(suffix)
  /\ SubstringFrom(s, Len(s) - Len(suffix)) = suffix

DefaultSuffix == <<"-", "D", "E", "F", "A", "U", "L", "T">>

\* definedToken[0].endsWith('-DEFAULT') ? definedToken[0].slice(0, -8)
\*                                      : definedToken[0]
Canonical(path) ==
  IF EndsWith(path, DefaultSuffix) THEN Substring(path, 0, Len(path) - 8)
  ELSE path

(***************************************************************************)
(* parseForArbitraryValues(node, arg), first half: the walk.  Its result   *)
(* is the sequence of leaves, one for each invocation that reaches the     *)
(* matcher (extractClassnamesFromValue and what follows), in the order in  *)
(* which they reach it: value is originalClassNamesValue, start and end    *)
(* the offsets, origin the branch that set them.                           *)
(***************************************************************************)
Leaf(value, start, end, origin) ==
  [value |-> value, start |-> start, end |-> end, origin |-> origin]

\* const parseForArbitraryValues = (node, arg = null): an argument that is
\* undefined takes the default.
DefaultArg(arg) == IF arg.type = "undefined" THEN NullNode ELSE arg

\* arg === null: the value and the range of the node itself.
RootLeaf(node) ==
  LET range == extractRangeFromNode(node) IN
  IF node.type = "TextAttribute"
  THEN Leaf(extractValueFromNode(node), range[1], range[2], "root")
  ELSE Leaf(extractValueFromNode(node), range[1] + 1, range[2] - 1, "root")

\* ConditionalOperands with a fault: the condition is walked too.
ConditionalOperandsWithTest(arg) == <<arg.test, arg.consequent, arg.alternate>>

\* case 'ConditionalExpression': the operands walked.
ConditionalOperands(arg) == <<arg.consequent, arg.alternate>>

\* case 'LogicalExpression'
LogicalOperands(arg) == <<arg.right>>

\* case 'TemplateLiteral': the expressions, then the quasis.
TemplateParts(arg) == arg.expressions \o arg.quasis

\* case 'ObjectExpression': the key or the value of every property.
ObjectOperands(node, arg) ==
  LET callee == Field(node, "callee")
      key == Field(node, "key")
      isUsedByClassNamesPlugin ==
        callee.type \notin {"undefined", "null"}
        /\ Field(callee, "name") = <<"c", "l", "a", "s", "s", "n", "a", "m", "e", "s">>
      isVue == key.type \notin {"undefined", "null"}
               /\ key.type = "VDirectiveKey" IN
  [i \in 1..Len(arg.properties) |->
     IF isUsedByClassNamesPlugin \/ isVue
     THEN Field(arg.properties[i], "key")
     ELSE Field(arg.properties[i], "value")]

\* case 'Literal'
LiteralLeaf(arg) ==
  Leaf(arg.value, arg.range[1] + 1, arg.range[2] - 1, "Literal")

\* case 'TemplateElement'
TemplateElementLeaf(arg) ==
  IF arg.raw = <<>> THEN <<>>
  ELSE <<Leaf(JsStr(arg.raw), arg.range[1], arg.range[2], "TemplateElement")>>

\* No case of the switch: originalClassNamesValue, start and end stay null
\* (null counts as 0 in start + classNamesIndex[idx]).
UnhandledLeaf(arg) == Leaf(JsNull, 0, 0, "unhandled")

RECURSIVE parseForArbitraryValues(_, _)
RECURSIVE WalkEach(_, _)

WalkEach(node, args) ==
  IF args = <<>> THEN <<>>
  ELSE parseForArbitraryValues(node, Head(args)) \o WalkEach(node, Tail(args))

parseForArbitraryValues(node, arg0) ==
  LET arg == DefaultArg(arg0) IN
  IF arg.type = "null" THEN <<RootLeaf(node)>>
  ELSE CASE arg.type = "Identifier" -> <<>>
         [] arg.type = "TemplateLiteral" -> WalkEach(node, TemplateParts(arg))
         [] arg.type = "ConditionalExpression" ->
              WalkEach(node, ConditionalOperands(arg))
         [] arg.type = "LogicalExpression" ->
              WalkEach(node, LogicalOperands(arg))
         [] arg.type = "ArrayExpression" -> WalkEach(node, arg.elements)
         [] arg.type = "ObjectExpression" ->
              WalkEach(node, ObjectOperands(node, arg))
         [] arg.type = "Property" ->
              parseForArbitraryValues(node, Field(arg, "key"))
         [] arg.type = "Literal" -> <<LiteralLeaf(arg)>>
         [] arg.type = "TemplateElement" -> TemplateElementLeaf(arg)
         [] OTHER -> <<UnhandledLeaf(arg)>>

(***************************************************************************)
(* parseForArbitraryValues, second half: the matcher.  A report is the     *)
(* data given to context.report; name (the parsed name the fix was         *)
(* computed from) is kept beside it for the properties only.               *)
(***************************************************************************)
\* FixStart with a fault: the offset of the class name in its leaf is
\* forgotten.
FixStartOfLeaf(start, classNamesIndex, idx) == start

\* start + classNamesIndex[idx]
FixStart(start, classNamesIndex, idx) == start + classNamesIndex[idx]

Forbidden(m, leaf, classNamesIndex, idx, cls) ==
  LET parsed == parseClassname(cls)
      arbitraryValue == BracketMatch(parsed.name)
      key == JsStr(arbitraryValue.key)
      definedToken == MapGet(m, key) IN
  IF arbitraryValue.found /\ MapHas(m, key)
  THEN <<[arbitraryValue |-> arbitraryValue.key,
          definedToken |-> definedToken,
          fixInfo |->
            [start |-> FixStart(leaf.start, classNamesIndex, idx),
             end |-> FixStart(leaf.start, classNamesIndex, idx)
                     + Len(parsed.name),
             fixed |-> Replace(parsed.name, arbitraryValue.matched,
                               Canonical(definedToken[1]))],
          name |-> parsed.name]>>
  ELSE <<>>

MatchLeaf(m, leaf) ==
  LET split == extractClassnamesFromValue(leaf.value) IN
  Flatten([idx \in 1..Len(split.classNames) |->
             Forbidden(m, leaf, split.classNamesIndex, idx,
                       split.classNames[idx])])

ReportAll(m, ls) == Flatten([i \in 1..Len(ls) |-> MatchLeaf(m, ls[i])])

(***************************************************************************)
(* The visited sites: a site is a node that a visitor of the rule          *)
(* receives, with the source text it was parsed from.                      *)
(***************************************************************************)
Site(node, before, after) ==
  [node |-> node, source |-> before \o node.text \o after]

NoSite == [node |-> NullNode, source |-> <<>>]

TagOpen == <<"<", "d", "i", "v", " ">>

\* <div name=...>, <div name={...}> or <div name>: value is a Literal, an
\* expression to put in a container, or a Hole for no value.
JSXAttribute(name, value, inContainer) ==
  LET o == Len(TagOpen)
      at == o + Len(name) + 1
      expression == Locate(value, at + 1)
      v == CASE value.type = "null" -> NullNode
             [] inContainer ->
                  [type |-> "JSXExpressionContainer",
                   expression |-> expression,
                   range |-> <<at, End(expression) + 1>>,
                   text |-> <<"{">> \o expression.text \o <<"}">>]
             [] OTHER -> Locate(value, at)
      text == IF value.type = "null" THEN name
              ELSE name \o <<"=">> \o v.text IN
  Site([type |-> "JSXAttribute", name |-> name, value |-> v,
        range |-> <<o, o + Len(text)>>, text |-> text],
       TagOpen, <<">">>)

\* A plain text attribute of a template, name="s": the node holds the
\* string and the span of the string without its quotes.
TextAttribute(name, s) ==
  LET o == Len(TagOpen)
      at == o + Len(name) + 2
      text == name \o <<"=", "\"">> \o s \o <<"\"">> IN
  Site([type |-> "TextAttribute", name |-> name, value |-> JsStr(s),
        valueSpan |-> <<at, at + Len(s)>>,
        range |-> <<o, o + Len(text)>>, text |-> text],
       TagOpen, <<">">>)

Assign == <<"x", "=">>

CallSite(callee, arguments) ==
  Site(Locate(CallExpression(callee, arguments), Len(Assign)), Assign, <<";">>)

TaggedTemplateExpression(tag, quasi) ==
  LET o == Len(Assign)
      t == Locate(Identifier(tag), o)
      q == Locate(quasi, End(t)) IN
  Site([type |-> "TaggedTemplateExpression", tag |-> t, quasi |-> q,
        range |-> <<o, End(q)>>, text |-> t.text \o q.text],
       Assign, <<";">>)

\* class="s" in a template of the template language.
VLiteralAttribute(name, s) ==
  LET o == Len(TagOpen)
      at == o + Len(name) + 1
      text == name \o <<"=", "\"">> \o s \o <<"\"">> IN
  Site([type |-> "VAttribute", directive |-> FALSE,
        key |-> [type |-> "VIdentifier", name |-> name],
        value |-> [type |-> "VLiteral", value |-> JsStr(s),
                   range |-> <<at, at + Len(s) + 2>>],
        range |-> <<o, o + Len(text)>>, text |-> text],
       TagOpen, <<">">>)

\* :class="expression"
VDirectiveAttribute(name, expression) ==
  LET o == Len(TagOpen)
      at == o + 1 + Len(name) + 1
      e == Locate(expression, at + 1)
      text == <<":">> \o name \o <<"=", "\"">> \o e.text \o <<"\"">> IN
  Site([type |-> "VAttribute", directive |-> TRUE,
        key |-> [type |-> "VDirectiveKey", name |-> name],
        value |-> [type |-> "VExpressionContainer", expression |-> e,
                   range |-> <<at, End(e) + 1>>],
        range |-> <<o, o + Len(text)>>, text |-> text],
       TagOpen, <<">">>)

(***************************************************************************)
(* The class strings of the sites.                                         *)
(***************************************************************************)
\* Most class names in a generated class string.
MaxTokens == 2

Tok_flex == <<"f", "l", "e", "x">>
Tok_bg == <<"b", "g", "-", "[", "#", "f", "0", "f", "2", "f", "5", "]">>
Tok_text1 == <<"t", "e", "x", "t", "-", "[", "#", "1", "2", "3", "4", "5", "6", "]">>
Tok_text3 == <<"t", "e", "x", "t", "-", "[", "#", "3", "3", "2", "2", "3", "3", "]">>
Tok_BG == <<"b", "g", "-", "[", "#", "F", "0", "F", "2", "F", "5", "]">>
Tok_hover == <<"h", "o", "v", "e", "r", ":", "b", "g", "-", "[", "#", "f", "0", "f", "2", "f", "5", "]">>
Tok_w == <<"w", "-", "[", "1", "0", "p", "x", "]">>

Tokens == {Tok_flex, Tok_bg, Tok_text1, Tok_text3, Tok_BG, Tok_hover, Tok_w}

RECURSIVE TokenSeqs(_)
TokenSeqs(n) ==
  IF n = 0 THEN {<<>>}
  ELSE LET shorter == TokenSeqs(n - 1) IN
       shorter \cup {Append(ts, t) : ts \in {u \in shorter : Len(u) = n - 1},
                                     t \in Tokens}

\* The class value of the rule's test.
TestClassValue ==
  Join(<<Tok_flex, Tok_bg, Tok_text1, Tok_text3, Tok_BG>>, <<" ">>)

\* Spaces before, between and after the class names.
SpacedClassValue ==
  <<" ">> \o Tok_w \o <<" ", " ">> \o Tok_text3 \o <<" ">> \o Tok_bg \o <<" ">>

ClassStrings ==
  {Join(ts, <<" ">>) : ts \in TokenSeqs(MaxTokens)}
  \cup {TestClassValue, SpacedClassValue}

ClassNames == Tokens

Id_c == Identifier(<<"c">>)
Id_d == Identifier(<<"d">>)
Name_class == <<"c", "l", "a", "s", "s">>
Name_className == <<"c", "l", "a", "s", "s", "N", "a", "m", "e">>
Name_id == <<"i", "d">>
Name_classnames == <<"c", "l", "a", "s", "s", "n", "a", "m", "e", "s">>
Name_clsx == <<"c", "l", "s", "x">>
Name_ctl == <<"c", "t", "l">>
Name_foo == <<"f", "o", "o">>
Name_tw == <<"t", "w">>

JSXSites ==
  {JSXAttribute(Name_class, Literal(s), FALSE) : s \in ClassStrings}
  \cup {JSXAttribute(Name_className, Literal(s), TRUE) : s \in ClassStrings}
  \cup {JSXAttribute(Name_id, Literal(a), FALSE) : a \in ClassNames}
  \cup {JSXAttribute(Name_class, Hole, FALSE)}
  \cup {JSXAttribute(Name_className, TabLiteral(a, b), TRUE) :
          a \in ClassNames, b \in ClassNames}
  \cup {JSXAttribute(Name_className, e, TRUE) :
          e \in UNION {{ConditionalExpression(Id_c, Literal(a), Literal(b)),
                        ConditionalExpression(Literal(a), Literal(b), Id_d),
                        LogicalExpression(Literal(a), Literal(b)),
                        TemplateLiteral(a \o <<" ">>, Literal(b),
                                        <<" ">> \o b \o <<" ">> \o a),
                        TemplateLiteral(<<>>, Id_c, <<" ">> \o b \o <<" ">> \o a),
                        ArrayExpression(<<Literal(a), Hole, Literal(b)>>)} :
                       a \in ClassNames, b \in ClassNames}}

TextSites == {TextAttribute(Name_class, s) : s \in ClassStrings}

CallSites ==
  {CallSite(Name_classnames, <<Literal(s)>>) : s \in ClassStrings}
  \cup {CallSite(Name_foo, <<Literal(a)>>) : a \in ClassNames}
  \cup {CallSite(Name_clsx,
                 <<ObjectExpression(<<Property(Id_c, Literal(a)),
                                      SpreadElement(Id_d)>>)>>) :
          a \in ClassNames}
  \cup UNION {{CallSite(Name_classnames,
                        <<Literal(a),
                          ObjectExpression(<<Property(Literal(b), Id_c),
                                             SpreadElement(Id_d)>>)>>),
               CallSite(Name_ctl,
                        <<CallExpression(Name_foo, <<Literal(a)>>),
                          Literal(b)>>),
               CallSite(Name_ctl,
                        <<Literal(a), BinaryExpression(Literal(b), Id_c)>>)} :
              a \in ClassNames, b \in ClassNames}

TaggedSites ==
  {TaggedTemplateExpression(Name_tw, TemplateLiteral(a, Id_c, <<" ">> \o b)) :
     a \in ClassNames, b \in ClassNames}
  \cup {TaggedTemplateExpression(Name_foo, TemplateLiteral(a, Id_c, <<>>)) :
          a \in ClassNames}

VSites ==
  {VLiteralAttribute(Name_class, s) : s \in ClassStrings}
  \cup {VLiteralAttribute(Name_id, a) : a \in ClassNames}
  \cup UNION {{VDirectiveAttribute(Name_class,
                 ArrayExpression(<<QuotedLiteral(a), Hole, QuotedLiteral(b)>>)),
               VDirectiveAttribute(Name_class,
                 ObjectExpression(<<Property(QuotedLiteral(a), Id_c),
                                    SpreadElement(Id_d),
                                    Property(QuotedLiteral(b), Id_d)>>))} :
              a \in ClassNames, b \in ClassNames}

(***************************************************************************)
(* The session: create(context), then the visitors.  A visit reads the     *)
(* options and the index and writes nothing the next visit reads, so one   *)
(* visit per behaviour shows every visit.                                  *)
(***************************************************************************)
VARIABLES
  colors,              \* mergedConfig.theme.colors
  skipClassAttribute,  \* option skipClassAttribute
  map,                 \* the index built by create
  pc,                  \* "idle" before a site is visited, "visited" after,
                       \* "threw" when create threw and no visitor exists
  site,                \* the site visited
  leaves,              \* the leaves that reached the matcher at the site
  reports              \* the reports of the site, in the order reported

ruleVars == <<colors, skipClassAttribute, map, pc, site, leaves, reports>>
vars == <<ruleVars, splitVars>>

\* Options callees and tags of the session.
Callees == {Name_classnames, Name_clsx, Name_ctl}
Tags == {Name_tw}

\* create: the index is built before any visitor is returned; a throw of
\* traverseObject ends the session there.
RuleInit ==
  /\ colors \in Themes
  /\ skipClassAttribute \in BOOLEAN
  /\ map = IF TraverseThrows(colors) THEN <<>> ELSE BuildMap(colors)
  /\ pc = IF TraverseThrows(colors) THEN "threw" ELSE "idle"
  /\ site = NoSite
  /\ leaves = <<>>
  /\ reports = <<>>

attributeVisitor(node) ==
  IF ~isClassAttribute(node) \/ skipClassAttribute THEN <<>>
  ELSE IF isLiteralAttributeValue(node)
       THEN parseForArbitraryValues(node, UndefinedNode)
  ELSE IF node.value.type = "JSXExpressionContainer"
       THEN parseForArbitraryValues(node, node.value.expression)
  ELSE <<>>

callExpressionVisitor(node) ==
  IF calleeToString(node.callee) \notin Callees THEN <<>>
  ELSE WalkEach(node, node.arguments)

taggedTemplateVisitor(node) ==
  IF node.tag.name \notin Tags THEN <<>>
  ELSE parseForArbitraryValues(node, node.quasi)

vAttributeVisitor(node) ==
  IF ~isValidVueAttribute(node) THEN <<>>
  ELSE IF isVLiteralValue(node)
       THEN parseForArbitraryValues(node, NullNode)
  ELSE IF isArrayExpression(node)
       THEN WalkEach(node, node.value.expression.elements)
  ELSE IF isObjectExpression(node)
       THEN WalkEach(node, node.value.expression.properties)
  ELSE <<>>

VisitJSXAttribute ==
  /\ pc = "idle"
  /\ \E s \in JSXSites :
       /\ site' = s
       /\ leaves' = attributeVisitor(s.node)
       /\ reports' = ReportAll(map, leaves')
  /\ pc' = "visited"
  /\ UNCHANGED <<colors, skipClassAttribute, map, splitVars>>

VisitTextAttribute ==
  /\ pc = "idle"
  /\ \E s \in TextSites :
       /\ site' = s
       /\ leaves' = attributeVisitor(s.node)
       /\ reports' = ReportAll(map, leaves')
  /\ pc' = "visited"
  /\ UNCHANGED <<colors, skipClassAttribute, map, splitVars>>

VisitCallExpression ==
  /\ pc = "idle"
  /\ \E s \in CallSites :
       /\ site' = s
       /\ leaves' = callExpressionVisitor(s.node)
       /\ reports' = ReportAll(map, leaves')
  /\ pc' = "visited"
  /\ UNCHANGED <<colors, skipClassAttribute, map, splitVars>>

VisitTaggedTemplateExpression ==
  /\ pc = "idle"
  /\ \E s \in TaggedSites :
       /\ site' = s
       /\ leaves' = taggedTemplateVisitor(s.node)
       /\ reports' = ReportAll(map, leaves')
  /\ pc' = "visited"
  /\ UNCHANGED <<colors, skipClassAttribute, map, splitVars>>

VisitVAttribute ==
  /\ pc = "idle"
  /\ \E s \in VSites :
       /\ site' = s
       /\ leaves' = vAttributeVisitor(s.node)
       /\ reports' = ReportAll(map, leaves')
  /\ pc' = "visited"
  /\ UNCHANGED <<colors, skipClassAttribute, map, splitVars>>

Init ==
  /\ RuleInit
  /\ splitStr = <<>>
  /\ splitSep = WhitespaceSplitter
  /\ splitResult = <<>>
  /\ splitCalled = FALSE

Next ==
  \/ VisitJSXAttribute
  \/ VisitTextAttribute
  \/ VisitCallExpression
  \/ VisitTaggedTemplateExpression
  \/ VisitVAttribute

Spec == Init /\ [][Next]_vars

\* The calls of splitWithIndex alone; the session stays as created.
SplitSpecInit ==
  /\ SplitInit
  /\ colors = EmptyColors
  /\ skipClassAttribute = FALSE
  /\ map = BuildMap(colors)
  /\ pc = "idle"
  /\ site = NoSite
  /\ leaves = <<>>
  /\ reports = <<>>

SplitNext == CallSplitWithIndex /\ UNCHANGED ruleVars

SplitSpec == SplitSpecInit /\ [][SplitNext]_vars

(***************************************************************************)
(* The host's side of a fix: fixer.replaceTextRange and one pass of fix    *)
(* application (fixes in the order of their ranges; a fix that starts      *)
(* before the end of the last one applied is left for another pass).       *)
(***************************************************************************)
Visited == pc = "visited"

Fixes(rs) == [i \in 1..Len(rs) |-> rs[i].fixInfo]

ReplaceTextRange(text, fix) ==
  Substring(text, 0, fix.start) \o fix.fixed \o SubstringFrom(text, fix.end)

Earliest(fixes, todo) ==
  CHOOSE i \in todo :
    \A j \in todo :
      \/ fixes[i].start < fixes[j].start
      \/ fixes[i].start = fixes[j].start /\ fixes[i].end < fixes[j].end
      \/ fixes[i].start = fixes[j].start /\ fixes[i].end = fixes[j].end /\ i <= j

RECURSIVE OnePassFrom(_, _, _, _)
OnePassFrom(text, fixes, todo, lastPos) ==
  IF todo = {} THEN SubstringFrom(text, lastPos)
  ELSE LET i == Earliest(fixes, todo) IN
       IF fixes[i].start < lastPos
       THEN OnePassFrom(text, fixes, todo \ {i}, lastPos)
       ELSE Substring(text, lastPos, fixes[i].start) \o fixes[i].fixed
            \o OnePassFrom(text, fixes, todo \ {i}, fixes[i].end)

ApplyFixes(text, fixes) == OnePassFrom(text, fixes, DOMAIN fixes, 0)

Latest(fixes, todo) ==
  CHOOSE i \in todo : \A j \in todo : fixes[j].start <= fixes[i].start

\* Every fix applied on its own, from the end of the text to its start.
RECURSIVE OneAtATime(_, _, _)
OneAtATime(text, fixes, todo) ==
  IF todo = {} THEN text
  ELSE LET i == Latest(fixes, todo) IN
       OneAtATime(ReplaceTextRange(text, fixes[i]), fixes, todo \ {i})

Disjoint(f, g) == f.end <= g.start \/ g.end <= f.start

(***************************************************************************)
(* C1.  The rule's test: on <div class="flex bg-[#f0f2f5] text-[#123456]   *)
(* text-[#332233] bg-[#F0F2F5]"> with the test's theme, four reports in    *)
(* token order with arbitraryValue #f0f2f5, #123456, #332233, #f0f2f5, and *)
(* all fixes applied give "flex bg-gray-layout text-flow text-gray         *)
(* bg-gray-layout".                                                        *)
(***************************************************************************)
TestSite == JSXAttribute(Name_class, Literal(TestClassValue), FALSE)

TestOutput ==
  TagOpen \o Name_class \o <<"=", "\"">>
  \o <<"f", "l", "e", "x", " ", "b", "g", "-", "g", "r", "a", "y", "-", "l", "a", "y", "o", "u", "t", " ", "t", "e", "x", "t", "-", "f", "l", "o", "w", " ", "t", "e", "x", "t", "-", "g", "r", "a", "y", " ", "b", "g", "-", "g", "r", "a", "y", "-", "l", "a", "y", "o", "u", "t">>
  \o <<"\"", ">">>

TestCaseVisited ==
  Visited /\ site = TestSite /\ colors = TestColors /\ ~skipClassAttribute

C1_TestPasses ==
  TestCaseVisited =>
    /\ [i \in 1..Len(reports) |-> reports[i].arbitraryValue]
         = <<Str_f0f2f5, Str_123456, Str_332233, Str_f0f2f5>>
    /\ ApplyFixes(site.source, Fixes(reports)) = TestOutput

(***************************************************************************)
(* C2.  For every report, the source text in the fix range [start, end)    *)
(* is the parsed name that the replacement text was computed from.         *)
(***************************************************************************)
C2_RangeIsName ==
  Visited =>
    \A i \in 1..Len(reports) :
      Substring(site.source, reports[i].fixInfo.start, reports[i].fixInfo.end)
        = reports[i].name

(***************************************************************************)
(* C3.  With skipClassAttribute, no report for an attribute, whichever     *)
(* visitor receives it (JSXAttribute, TextAttribute, VAttribute).          *)
(***************************************************************************)
AttributeTypes == {"JSXAttribute", "TextAttribute", "VAttribute"}

C3_SkipSilencesAttributes ==
  (Visited /\ skipClassAttribute /\ site.node.type \in AttributeTypes)
    => reports = <<>>

(***************************************************************************)
(* C4.  The replacement text of a report is the parsed name with the text  *)
(* from its first [ to its last ] replaced by the first path of the        *)
(* value, without a final -DEFAULT; the rest of the name is kept.  (The    *)
(* path is put there as it is, whatever its characters.)                   *)
(***************************************************************************)
WithoutDefault(path) ==
  IF Len(path) >= 8
     /\ SubSeq(path, Len(path) - 7, Len(path)) = <<"-", "D", "E", "F", "A", "U", "L", "T">>
  THEN SubSeq(path, 1, Len(path) - 8)
  ELSE path

ExpectedFix(name, path) ==
  LET open == CHOOSE i \in 1..Len(name) :
                name[i] = "[" /\ \A j \in 1..(i - 1) : name[j] # "["
      close == CHOOSE i \in 1..Len(name) :
                 name[i] = "]" /\ \A j \in (i + 1)..Len(name) : name[j] # "]" IN
  SubSeq(name, 1, open - 1) \o WithoutDefault(path)
  \o SubSeq(name, close + 1, Len(name))

C4_FixedText ==
  Visited =>
    \A i \in 1..Len(reports) :
      reports[i].fixInfo.fixed
        = ExpectedFix(reports[i].name, reports[i].definedToken[1])

(***************************************************************************)
(* C5.  The index entry of a value holds the dash-joined path of every     *)
(* theme path with that value, one element for each, in depth-first key    *)
(* order; definedToken of a report is that whole list and the replacement  *)
(* is made from its first element alone: the name with its bracket part    *)
(* replaced by what String.prototype.replace makes of that element         *)
(* without a final -DEFAULT.                                               *)
(***************************************************************************)
FixFromPath(name, path) ==
  LET open == CHOOSE i \in 1..Len(name) :
                name[i] = "[" /\ \A j \in 1..(i - 1) : name[j] # "["
      close == CHOOSE i \in 1..Len(name) :
                 name[i] = "]" /\ \A j \in (i + 1)..Len(name) : name[j] # "]"
      before == SubSeq(name, 1, open - 1)
      after == SubSeq(name, close + 1, Len(name)) IN
  before
  \o GetSubstitution(WithoutDefault(path), 1, SubSeq(name, open, close),
                     before, after)
  \o after

RECURSIVE PathsOf(_, _, _)
PathsOf(obj, value, prefix) ==
  Flatten([i \in 1..Len(obj.entries) |->
             LET e == obj.entries[i] IN
             IF e.val.t = "object"
             THEN PathsOf(e.val, value, prefix \o e.key \o <<"-">>)
             ELSE IF e.val = value THEN <<prefix \o e.key>> ELSE <<>>])

C5_IndexInDiscoveryOrder ==
  pc # "threw" =>
    /\ \A i \in 1..Len(map) : map[i].paths = PathsOf(colors, map[i].key, <<>>)
    /\ \A i, j \in 1..Len(map) : map[i].key = map[j].key => i = j
    /\ \A v \in {JsStr(Str_f0f2f5), JsStr(Str_123456), JsStr(Str_332233)} :
         MapGet(map, v) = PathsOf(colors, v, <<>>)
    /\ Visited =>
         \A i \in 1..Len(reports) :
           LET paths == PathsOf(colors, JsStr(reports[i].arbitraryValue), <<>>) IN
           /\ reports[i].definedToken = paths
           /\ reports[i].fixInfo.fixed = FixFromPath(reports[i].name, paths[1])

C5_Witness ==
  /\ Visited
  /\ colors = TestColors
  /\ \E i \in 1..Len(reports) :
       /\ reports[i].definedToken = <<<<"g", "r", "a", "y", "-", "l", "a", "y", "o", "u", "t">>, <<"g", "r", "a", "y", "-", "f", "l", "o", "w">>>>
       /\ reports[i].fixInfo.fixed = <<"b", "g", "-", "g", "r", "a", "y", "-", "l", "a", "y", "o", "u", "t">>

(***************************************************************************)
(* C6.  The fix ranges of two reports of one site are disjoint, and one    *)
(* pass over all the fixes gives the text that the fixes give one at a     *)
(* time.                                                                   *)
(***************************************************************************)
C6_FixesDisjoint ==
  Visited =>
    /\ \A i, j \in 1..Len(reports) :
         i # j => Disjoint(reports[i].fixInfo, reports[j].fixInfo)
    /\ ApplyFixes(site.source, Fixes(reports))
         = OneAtATime(site.source, Fixes(reports), 1..Len(reports))

C6_Witness ==
  /\ Visited
  /\ Len(leaves) >= 2
  /\ Len(reports) >= 3
  /\ \E i, j \in 1..Len(reports) :
       i < j /\ reports[j].fixInfo.start < reports[i].fixInfo.start

(***************************************************************************)
(* C7.  A conditional expression gives the leaves of its true branch, then *)
(* those of its false branch, and none for its condition; each leaf has    *)
(* the offsets of its own literal and is matched against the index.        *)
(***************************************************************************)
IsConditionalSite ==
  /\ Visited
  /\ ~skipClassAttribute
  /\ site.node.type = "JSXAttribute"
  /\ site.node.value.type = "JSXExpressionContainer"
  /\ site.node.value.expression.type = "ConditionalExpression"

OwnLeaf(branch) ==
  IF branch.type = "Literal"
  THEN <<[value |-> branch.value, start |-> branch.range[1] + 1,
          end |-> branch.range[2] - 1, origin |-> "Literal"]>>
  ELSE <<>>

C7_ConditionalBothBranches ==
  IsConditionalSite =>
    LET e == site.node.value.expression IN
    /\ leaves = OwnLeaf(e.consequent) \o OwnLeaf(e.alternate)
    /\ \A i \in 1..Len(leaves) :
         Substring(site.source, leaves[i].start, leaves[i].end)
           = leaves[i].value.s
    /\ reports = ReportAll(map, OwnLeaf(e.consequent))
                 \o ReportAll(map, OwnLeaf(e.alternate))

C7_ConditionSilent ==
  /\ IsConditionalSite
  /\ site.node.value.expression.test.type = "Literal"
  /\ site.node.value.expression.test.value = JsStr(Tok_bg)
  /\ Len(leaves) = 1
  /\ Len(reports) = 1
  /\ reports[1].arbitraryValue = Str_123456

C7_Witness ==
  /\ IsConditionalSite
  /\ Len(leaves) = 2
  /\ Len(reports) = 2
  /\ reports[1].fixInfo.start = site.node.value.expression.consequent.range[1] + 1
  /\ reports[2].fixInfo.start = site.node.value.expression.alternate.range[1] + 1

(***************************************************************************)
(* C8.  An argument of a shape the walker does not handle (a nested call,  *)
(* a binary expression) gives no leaf to the matcher and no report: the    *)
(* leaves of the call are those of the arguments beside it, and so are the *)
(* reports.                                                                *)
(***************************************************************************)
HandledTypes ==
  {"Identifier", "TemplateLiteral", "ConditionalExpression",
   "LogicalExpression", "ArrayExpression", "ObjectExpression", "Property",
   "Literal", "TemplateElement"}

IsUnhandled(arg) == arg.type \notin HandledTypes \cup {"null", "undefined"}

HasUnhandledArgument ==
  /\ Visited
  /\ site.node.type = "CallExpression"
  /\ site.node.callee.name \in Callees
  /\ \E i \in 1..Len(site.node.arguments) : IsUnhandled(site.node.arguments[i])
  /\ \A i \in 1..Len(site.node.arguments) :
       IsUnhandled(site.node.arguments[i])
       \/ site.node.arguments[i].type = "Literal"

EntriesAtTheirIndex ==
  \A i \in 1..Len(splitResult) :
    Substring(splitStr, splitResult[i].index,
              splitResult[i].index + Len(splitResult[i].value))
      = splitResult[i].value

IndexesInOrder ==
  \A i \in 1..(Len(splitResult) - 1) :
    splitResult[i].index <= splitResult[i + 1].index

C9_SplitWithIndexIsSplit ==
  splitCalled =>
    /\ EntriesAtTheirIndex
    /\ IndexesInOrder
    /\ Values(splitResult) = JsSplit(splitStr, splitSep)

(***************************************************************************)
(* C10.  The walker reads the value and the range of the site node itself  *)
(* (root mode) only when a visitor calls it on a literal attribute, never  *)
(* for an absent child (a hole of an array, a spread entry of an object).  *)
(***************************************************************************)
IsLiteralAttribute(node) ==
  \/ node.type \in {"JSXAttribute", "TextAttribute"}
     /\ isLiteralAttributeValue(node)
  \/ node.type = "VAttribute" /\ isVLiteralValue(node)

C10_RootModeOnlyForLiteralAttribute ==
  Visited =>
    \A i \in 1..Len(leaves) :
      leaves[i].origin = "root" => IsLiteralAttribute(site.node)

====
